---- MODULE Spec2Model ----
(***************************************************************************)
(* The producer (produser-service/cmd/main.go) and the consumer            *)
(* (consumer-service/cmd/main.go) of HTTPServerWithNATS, run as            *)
(* independent processes against one NATS broker.                          *)
(*                                                                         *)
(* Each process is a record: pc is the position in main, nc the state of   *)
(* the connection handle, buf the protocol lines the client library has    *)
(* buffered but not yet written to the broker, deferred the stack of       *)
(* deferred calls, out the lines written by package log, status the exit   *)
(* status, calls the library calls made so far with the error each         *)
(* returned, got the messages the subscription callback was run with (a    *)
(* consumer's only).  The broker keeps the registered subscriptions (subs) *)
(* and, for each subscriber, the messages routed to it whose callback has  *)
(* not run yet (pending).  atPublish[p] records which clients held a       *)
(* subscription at the broker when run p's Publish returned nil, atBroker  *)
(* which messages the broker received and who was subscribed on arrival.   *)
(* A process is ended only by its own code: signals are not modelled.      *)
(***************************************************************************)
EXTENDS Naturals, Sequences, FiniteSets

\* Bounds: how many producer runs and consumer processes are started.
NumProducers == 1
NumConsumers == 1

Producers == 1..NumProducers
Consumers == 1..NumConsumers

\* produser-service/cmd/main.go:16
Payload == "Hello, NATS!"
\* produser-service/cmd/main.go:21, the Russian literal in English
SentLine == "Message sent"
\* consumer-service/cmd/main.go:17, the Russian literal in English
ReceivedFormat == "Message received: %s"

\* err == nil
NoErr == "nil"

\* What nats.Connect, nc.Publish and nc.Subscribe may return: nil or one of
\* the client library's errors.
ConnectErrs == {NoErr, "nats: no servers available for connection", "nats: timeout"}
PublishErrs == {NoErr, "nats: connection closed", "nats: outbound buffer limit exceeded"}
SubscribeErrs == {NoErr, "nats: connection closed"}

VARIABLES producer, consumer, subs, pending, atPublish, atBroker

vars == <<producer, consumer, subs, pending, atPublish, atBroker>>

\* The process before main's first statement.
Started ==
    [pc |-> "connect", nc |-> "nil", buf |-> <<>>, deferred |-> <<>>,
     out |-> <<>>, status |-> "running", calls |-> <<>>, got |-> <<>>]

\* The message the producer run p builds; from tells the runs apart and is
\* not part of what is sent.
Msg(p, subject, data) == [subject |-> subject, data |-> data, from |-> p]

Called(s, fn, err) == [s EXCEPT !.calls = Append(@, [fn |-> fn, err |-> err])]

\* A line of package log: the format and its argument.
Line(format, arg) == [format |-> format, arg |-> arg]

Fatal_RunsDeferred(s, err) ==
    [s EXCEPT !.out = Append(@, Line("%v", err)), !.status = "1",
              !.pc = "exited",
              !.nc = IF s.deferred # <<>> THEN "closed" ELSE @,
              !.calls = Append(@, [fn |-> "Fatal", err |-> err])
                        \o (IF s.deferred # <<>>
                            THEN <<[fn |-> "Close", err |-> NoErr]>> ELSE <<>>),
              !.deferred = <<>>]

\* log.Fatal(err): print err, then os.Exit(1); the deferred calls do not run
\* and the connection handle is left as it is.
Fatal(s, err) ==
    [Called(s, "Fatal", err) EXCEPT
        !.out = Append(@, Line("%v", err)), !.status = "1", !.pc = "exited"]

\* nc.Close(): what is still buffered is written out, the handle is closed.
Close(s) ==
    [Called(s, "Close", NoErr) EXCEPT !.nc = "closed", !.buf = <<>>]

(***************************************************************************)
(* The broker.  subs is the set of registered subscriptions; a message     *)
(* that arrives is appended to the pending queue of every client holding   *)
(* a subscription on its subject at that moment, and to no other.          *)
(***************************************************************************)
Subscribers(ss, subject) == {sub.client : sub \in {x \in ss : x.subject = subject}}

RECURSIVE Route(_, _, _)
Route(pend, ss, msgs) ==
    IF msgs = <<>> THEN pend
    ELSE Route([c \in Consumers |->
                   IF c \in Subscribers(ss, Head(msgs).subject)
                   THEN Append(pend[c], Head(msgs)) ELSE pend[c]],
               ss, Tail(msgs))

\* What the broker has received, with the clients subscribed on arrival.
Arrived(ss, msgs) ==
    {[msg |-> msgs[i], subs |-> Subscribers(ss, msgs[i].subject)] : i \in DOMAIN msgs}

RECURSIVE Retained(_, _, _)
Retained(arrived, subject, p) ==
    IF p > NumProducers THEN <<>>
    ELSE (IF \E a \in arrived : a.msg.from = p /\ a.msg.subject = subject
          THEN <<(CHOOSE a \in arrived : a.msg.from = p /\ a.msg.subject = subject).msg>>
          ELSE <<>>) \o Retained(arrived, subject, p + 1)

SubscribeReplay_Durable(arrived, subject) == Retained(arrived, subject, 1)

\* consumer main.go:16 registers a plain subscription (nc.Subscribe): the
\* broker hands it nothing that arrived before the registration.
SubscribeReplay(arrived, subject) == <<>>

(***************************************************************************)
(* The producer: produser-service/cmd/main.go                              *)
(***************************************************************************)
ProducerSubject_Typo == "update"

ProducerSubject == "updates"

ProducerConnect_IgnoreErr(s, err) ==
    [Called(s, "Connect", err) EXCEPT
        !.nc = "open", !.deferred = <<"Close">>, !.pc = "publish"]

ProducerConnect_NoDefer(s, err) ==
    IF err # NoErr THEN Fatal(Called(s, "Connect", err), err)
    ELSE [Called(s, "Connect", err) EXCEPT !.nc = "open", !.pc = "publish"]

\* lines 10-14
ProducerConnect(s, err) ==
    IF err # NoErr THEN Fatal(Called(s, "Connect", err), err)
    ELSE [Called(s, "Connect", err) EXCEPT
             !.nc = "open", !.deferred = <<"Close">>, !.pc = "publish"]

Publish_IgnoreErr(s, msg, err) ==
    [Called(s, "Publish", err) EXCEPT
        !.buf = IF err = NoErr THEN Append(@, msg) ELSE @, !.pc = "println"]

\* lines 16-19: nc.Publish buffers the message and returns
Publish(s, msg, err) ==
    IF err # NoErr THEN Fatal(Called(s, "Publish", err), err)
    ELSE [Called(s, "Publish", err) EXCEPT
             !.buf = Append(@, msg), !.pc = "println"]

\* line 21
Println(s) ==
    [Called(s, "Println", NoErr) EXCEPT
        !.out = Append(@, Line("%v", SentLine)), !.pc = "return"]

Flushed_None(s) == <<>>

\* What the deferred calls of a returning main write to the broker.
Flushed(s) == IF s.deferred # <<>> THEN s.buf ELSE <<>>

\* line 22 with line 14: main returns, its deferred calls run
Return(s) ==
    [(IF s.deferred # <<>> THEN Close(s) ELSE s) EXCEPT
        !.deferred = <<>>, !.pc = "exit"]

\* the runtime ends the process after main returned
Exit(s) == [s EXCEPT !.status = "0", !.pc = "exited"]

ProducerDoConnect(p) ==
    /\ producer[p].pc = "connect"
    /\ \E err \in ConnectErrs :
          producer' = [producer EXCEPT ![p] = ProducerConnect(@, err)]
    /\ UNCHANGED <<consumer, subs, pending, atPublish, atBroker>>

ProducerDoPublish(p) ==
    /\ producer[p].pc = "publish"
    /\ \E err \in PublishErrs :
          /\ producer' = [producer EXCEPT
                 ![p] = Publish(@, Msg(p, ProducerSubject, Payload), err)]
          /\ atPublish' = [atPublish EXCEPT
                 ![p] = IF err = NoErr THEN Subscribers(subs, ProducerSubject) ELSE @]
    /\ UNCHANGED <<consumer, subs, pending, atBroker>>

ProducerDoPrintln(p) ==
    /\ producer[p].pc = "println"
    /\ producer' = [producer EXCEPT ![p] = Println(@)]
    /\ UNCHANGED <<consumer, subs, pending, atPublish, atBroker>>

ProducerDoReturn_AwaitsBroker(p) ==
    /\ producer[p].pc = "return"
    /\ producer[p].buf = <<>>
    /\ producer' = [producer EXCEPT ![p] = Return(@)]
    /\ UNCHANGED <<consumer, subs, pending, atPublish, atBroker>>

ProducerDoReturn(p) ==
    /\ producer[p].pc = "return"
    /\ producer' = [producer EXCEPT ![p] = Return(@)]
    /\ pending' = Route(pending, subs, Flushed(producer[p]))
    /\ atBroker' = atBroker \cup Arrived(subs, Flushed(producer[p]))
    /\ UNCHANGED <<consumer, subs, atPublish>>

ProducerDoExit(p) ==
    /\ producer[p].pc = "exit"
    /\ producer' = [producer EXCEPT ![p] = Exit(@)]
    /\ UNCHANGED <<consumer, subs, pending, atPublish, atBroker>>

\* The client library writes a buffered message out in the background.
ProducerFlusher(p) ==
    /\ producer[p].pc # "exited"
    /\ producer[p].nc = "open"
    /\ producer[p].buf # <<>>
    /\ producer' = [producer EXCEPT ![p].buf = Tail(@)]
    /\ pending' = Route(pending, subs, <<Head(producer[p].buf)>>)
    /\ atBroker' = atBroker \cup Arrived(subs, <<Head(producer[p].buf)>>)
    /\ UNCHANGED <<consumer, subs, atPublish>>

(***************************************************************************)
(* The consumer: consumer-service/cmd/main.go                              *)
(***************************************************************************)
ConsumerSubject == "updates"

ConsumerConnect_IgnoreErr(s, err) ==
    [Called(s, "Connect", err) EXCEPT
        !.nc = "open", !.deferred = <<"Close">>, !.pc = "subscribe"]

\* lines 10-14
ConsumerConnect(s, err) ==
    IF err # NoErr THEN Fatal(Called(s, "Connect", err), err)
    ELSE [Called(s, "Connect", err) EXCEPT
             !.nc = "open", !.deferred = <<"Close">>, !.pc = "subscribe"]

\* lines 16-21: nc.Subscribe buffers the SUB line and returns
Subscribe(s, subject, err) ==
    IF err # NoErr THEN Fatal(Called(s, "Subscribe", err), err)
    ELSE [Called(s, "Subscribe", err) EXCEPT
             !.buf = Append(@, [op |-> "SUB", subject |-> subject]),
             !.pc = "select"]

\* line 23: select {} has no case, main blocks for ever
Select(s) == [Called(s, "select", NoErr) EXCEPT !.pc = "blocked"]

Callback_Fatal(s, msg) ==
    Fatal([s EXCEPT !.got = Append(@, msg)], msg.data)

\* lines 16-18: the callback, run by the client library for a delivered msg
Callback(s, msg) ==
    [s EXCEPT !.out = Append(@, Line(ReceivedFormat, msg.data)),
              !.got = Append(@, msg)]

ConsumerDoConnect(c) ==
    /\ consumer[c].pc = "connect"
    /\ \E err \in ConnectErrs :
          consumer' = [consumer EXCEPT ![c] = ConsumerConnect(@, err)]
    /\ UNCHANGED <<producer, subs, pending, atPublish, atBroker>>

ConsumerDoSubscribe(c) ==
    /\ consumer[c].pc = "subscribe"
    /\ \E err \in SubscribeErrs :
          consumer' = [consumer EXCEPT ![c] = Subscribe(@, ConsumerSubject, err)]
    /\ UNCHANGED <<producer, subs, pending, atPublish, atBroker>>

ConsumerDoSelect(c) ==
    /\ consumer[c].pc = "select"
    /\ consumer' = [consumer EXCEPT ![c] = Select(@)]
    /\ UNCHANGED <<producer, subs, pending, atPublish, atBroker>>

\* The client library writes the buffered SUB line out in the background and
\* the broker registers the subscription.
ConsumerFlusher(c) ==
    /\ consumer[c].pc # "exited"
    /\ consumer[c].nc = "open"
    /\ consumer[c].buf # <<>>
    /\ consumer' = [consumer EXCEPT ![c].buf = Tail(@)]
    /\ subs' = subs \cup {[client |-> c, subject |-> Head(consumer[c].buf).subject]}
    /\ pending' = [pending EXCEPT
           ![c] = @ \o SubscribeReplay(atBroker, Head(consumer[c].buf).subject)]
    /\ UNCHANGED <<producer, atPublish, atBroker>>

\* The client library takes the next message routed to c and runs the callback.
Deliver(c) ==
    /\ consumer[c].pc # "exited"
    /\ consumer[c].nc = "open"
    /\ pending[c] # <<>>
    /\ consumer' = [consumer EXCEPT ![c] = Callback(@, Head(pending[c]))]
    /\ pending' = [pending EXCEPT ![c] = Tail(@)]
    /\ UNCHANGED <<producer, subs, atPublish, atBroker>>

Init ==
    /\ producer = [p \in Producers |-> Started]
    /\ consumer = [c \in Consumers |-> Started]
    /\ subs = {}
    /\ pending = [c \in Consumers |-> <<>>]
    /\ atPublish = [p \in Producers |-> {}]
    /\ atBroker = {}

ProducerMain(p) ==
    \/ ProducerDoConnect(p)
    \/ ProducerDoPublish(p)
    \/ ProducerDoPrintln(p)
    \/ ProducerDoReturn(p)
    \/ ProducerDoExit(p)

Next ==
    \/ \E p \in Producers : ProducerMain(p) \/ ProducerFlusher(p)
    \/ \E c \in Consumers :
          \/ ConsumerDoConnect(c)
          \/ ConsumerDoSubscribe(c)
          \/ ConsumerDoSelect(c)
          \/ ConsumerFlusher(c)
          \/ Deliver(c)

Spec == Init /\ [][Next]_vars

\* Every process and every background task of the client library keeps
\* running: the Go scheduler and the operating system starve none of them.
FairSpec ==
    /\ Spec
    /\ \A p \in Producers : WF_vars(ProducerMain(p)) /\ WF_vars(ProducerFlusher(p))
    /\ \A c \in Consumers :
          /\ WF_vars(ConsumerDoConnect(c) \/ ConsumerDoSubscribe(c) \/ ConsumerDoSelect(c))
          /\ WF_vars(ConsumerFlusher(c))
          /\ WF_vars(Deliver(c))

\* Only the producers' main flows are sure to run: the broker, the
\* background flushers and the consumers may stay silent for ever.
ProducerFairSpec == Spec /\ \A p \in Producers : WF_vars(ProducerMain(p))

(***************************************************************************)
(* The claims.                                                             *)
(***************************************************************************)
Count(seq, p) == Cardinality({i \in DOMAIN seq : seq[i].from = p})

Fns(s) == [i \in DOMAIN s.calls |-> s.calls[i].fn]

Failed(s, fn) == \E i \in DOMAIN s.calls : s.calls[i].fn = fn /\ s.calls[i].err # "nil"

Did(s, fn) == \E i \in DOMAIN s.calls : s.calls[i].fn = fn

Printed(s, arg) == \E i \in DOMAIN s.out : s.out[i].arg = arg

Registered(c) == [client |-> c, subject |-> "updates"] \in subs

\* C1: a consumer whose subscription on "updates" the broker holds when a
\* producer run publishes has its callback invoked for that publish
\* eventually, at most once in every state, and only ever with the payload
\* "Hello, NATS!".
C1_DeliveredExactlyOnce ==
    /\ [](\A c \in Consumers :
            /\ \A i \in DOMAIN consumer[c].got : consumer[c].got[i].data = "Hello, NATS!"
            /\ \A p \in Producers : Count(consumer[c].got, p) <= 1)
    /\ \A p \in Producers : \A c \in Consumers :
          (c \in atPublish[p]) ~> (Count(consumer[c].got, p) = 1)

C1_Witness ==
    \E p \in Producers : \E c \in Consumers :
        /\ c \in atPublish[p]
        /\ Count(consumer[c].got, p) = 1
        /\ Printed(consumer[c], "Hello, NATS!")

\* C2: a producer whose connect failed has exited with status 1, has made no
\* Publish call, has handed nothing to the broker and has not printed the
\* success line.
C2_ProducerConnectFailure ==
    \A p \in Producers :
        Failed(producer[p], "Connect") =>
            /\ producer[p].status = "1"
            /\ producer[p].pc = "exited"
            /\ ~Did(producer[p], "Publish")
            /\ producer[p].buf = <<>>
            /\ \A a \in atBroker : a.msg.from # p
            /\ ~Printed(producer[p], "Message sent")

C2_Witness ==
    \E p \in Producers : \E c \in Consumers :
        /\ Failed(producer[p], "Connect")
        /\ producer[p].status = "1"
        /\ Registered(c)

\* C3: a consumer whose connect failed has exited with status 1, has made no
\* Subscribe call, holds no subscription at the broker, has not run its
\* callback and has not reached select.
C3_ConsumerConnectFailure ==
    \A c \in Consumers :
        Failed(consumer[c], "Connect") =>
            /\ consumer[c].status = "1"
            /\ consumer[c].pc = "exited"
            /\ ~Did(consumer[c], "Subscribe")
            /\ consumer[c].buf = <<>>
            /\ \A sub \in subs : sub.client # c
            /\ pending[c] = <<>>
            /\ consumer[c].got = <<>>
            /\ ~Did(consumer[c], "select")

C3_Witness ==
    \E c \in Consumers : \E p \in Producers :
        /\ Failed(consumer[c], "Connect")
        /\ consumer[c].status = "1"
        /\ producer[p].status = "0"

\* C4: a process whose second step failed (Publish in the producer,
\* Subscribe in the consumer) made exactly the calls Connect, that step and
\* Fatal, printed the error and nothing else, and has exited with status 1;
\* the consumer holds no subscription and never blocked.
C4_SecondStepFailure ==
    /\ \A p \in Producers :
          Failed(producer[p], "Publish") =>
              /\ Fns(producer[p]) = <<"Connect", "Publish", "Fatal">>
              /\ producer[p].calls[1].err = "nil"
              /\ producer[p].out = <<Line("%v", producer[p].calls[2].err)>>
              /\ producer[p].status = "1"
              /\ producer[p].pc = "exited"
              /\ producer[p].buf = <<>>
              /\ \A a \in atBroker : a.msg.from # p
    /\ \A c \in Consumers :
          Failed(consumer[c], "Subscribe") =>
              /\ Fns(consumer[c]) = <<"Connect", "Subscribe", "Fatal">>
              /\ consumer[c].calls[1].err = "nil"
              /\ consumer[c].out = <<Line("%v", consumer[c].calls[2].err)>>
              /\ consumer[c].status = "1"
              /\ consumer[c].pc = "exited"
              /\ consumer[c].buf = <<>>
              /\ \A sub \in subs : sub.client # c

C4_Witness ==
    \E p \in Producers : \E c \in Consumers :
        /\ Failed(producer[p], "Publish")
        /\ Failed(consumer[c], "Subscribe")

\* C5: a producer whose connect and publish succeeded reaches exit status 0
\* when only its own main flow is sure to run, whatever the broker, the
\* flusher and the consumers do or fail to do.
C5_ProducerTerminates ==
    \A p \in Producers :
        (producer[p].pc = "println") ~> (producer[p].status = "0")

C5_Witness ==
    \E p \in Producers :
        /\ producer[p].status = "0"
        /\ subs = {}
        /\ \A c \in Consumers : consumer[c].pc = "connect"

\* C6: a consumer whose Subscribe succeeded stays running and connected in
\* every step, one blocked in select stays blocked, and a subscription the
\* broker holds for it stays registered.
C6_ConsumerNeverTerminates ==
    [][\A c \in Consumers :
          /\ consumer[c].pc \in {"select", "blocked"} =>
                /\ consumer'[c].pc \in {"select", "blocked"}
                /\ consumer'[c].status = "running"
                /\ consumer'[c].nc = "open"
          /\ consumer[c].pc = "blocked" => consumer'[c].pc = "blocked"
          /\ Registered(c) => [client |-> c, subject |-> "updates"] \in subs']_vars

C6_Witness ==
    \E c \in Consumers :
        /\ consumer[c].pc = "blocked"
        /\ Registered(c)
        /\ Len(consumer[c].got) = NumProducers
        /\ pending[c] = <<>>

\* C7: every message a producer has buffered or the broker has received,
\* routed or delivered to a callback has subject "updates".
C7_OnlyUpdates ==
    /\ \A p \in Producers :
          \A i \in DOMAIN producer[p].buf : producer[p].buf[i].subject = "updates"
    /\ \A a \in atBroker : a.msg.subject = "updates"
    /\ \A c \in Consumers :
          /\ \A i \in DOMAIN pending[c] : pending[c][i].subject = "updates"
          /\ \A i \in DOMAIN consumer[c].got : consumer[c].got[i].subject = "updates"

C7_Witness ==
    /\ atBroker # {}
    /\ \E c \in Consumers : consumer[c].got # <<>>

\* C8: a producer that exited with status 0 made the calls Connect, Publish,
\* Println, Close in this order, none of which failed, printed the success
\* line only, and its connection is closed.
C8_ProducerSuccessOrder ==
    \A p \in Producers :
        producer[p].status = "0" =>
            /\ producer[p].calls =
                  <<[fn |-> "Connect", err |-> "nil"], [fn |-> "Publish", err |-> "nil"],
                    [fn |-> "Println", err |-> "nil"], [fn |-> "Close", err |-> "nil"]>>
            /\ producer[p].out = <<Line("%v", "Message sent")>>
            /\ producer[p].nc = "closed"
            /\ producer[p].buf = <<>>

C8_Witness == \E p \in Producers : producer[p].status = "0"

\* C9: a consumer that held no subscription on the subject when a message
\* reached the broker is never handed that message.
C9_NoRetention ==
    \A a \in atBroker : \A c \in Consumers :
        c \notin a.subs =>
            /\ Count(consumer[c].got, a.msg.from) = 0
            /\ Count(pending[c], a.msg.from) = 0

C9_Witness ==
    \E a \in atBroker : \E c \in Consumers :
        /\ c \notin a.subs
        /\ Registered(c)
        /\ consumer[c].pc = "blocked"
        /\ producer[a.msg.from].status = "0"
        /\ Printed(producer[a.msg.from], "Message sent")

\* C10: a process that exited with status 1 never called Close and its
\* connection is not closed; Close is called only by a main that returned;
\* a consumer that reached select has its deferred Close still pending.
C10_CloseOnlyOnReturn ==
    /\ \A p \in Producers :
          /\ producer[p].status = "1" =>
                ~Did(producer[p], "Close") /\ producer[p].nc # "closed"
          /\ Did(producer[p], "Close") =>
                producer[p].pc \in {"exit", "exited"} /\ producer[p].status # "1"
    /\ \A c \in Consumers :
          /\ consumer[c].status = "1" =>
                ~Did(consumer[c], "Close") /\ consumer[c].nc # "closed"
          /\ consumer[c].pc = "blocked" =>
                /\ ~Did(consumer[c], "Close")
                /\ consumer[c].nc = "open"
                /\ consumer[c].deferred = <<"Close">>

C10_Witness ==
    \E p \in Producers : \E c \in Consumers :
        /\ Failed(producer[p], "Publish") /\ producer[p].nc = "open"
        /\ producer[p].status = "1" /\ producer[p].deferred = <<"Close">>
        /\ Failed(consumer[c], "Subscribe") /\ consumer[c].nc = "open"
        /\ consumer[c].status = "1" /\ consumer[c].deferred = <<"Close">>

====
